---- MODULE Spec2Model ----
(***************************************************************************)
(* Model of Ars_Magica_5th/arm5_py_integration/__init__.py: the module     *)
(* level generation of the template slots (GLOBALS) and the two functions  *)
(* the HTML template calls afterwards, alert and disable_old_alerts.       *)
(*                                                                         *)
(* Text is a sequence of symbols.  A symbol is a TLA+ string: one          *)
(* character where the code looks inside the text (hex values, ids,        *)
(* placeholders, substitution values), a whole literal chunk of an         *)
(* f-string where it does not.                                             *)
(***************************************************************************)
EXTENDS Integers, Sequences, FiniteSets, TLC

VARIABLES
    pc,         \* position of the module-level code being imported
    GLOBALS,    \* the slot mapping (dict GLOBALS), slot name -> text
    numid,      \* alert.numid
    strid,      \* alert.strid
    banners,    \* the banners returned so far, in order: [num, id]
    ret,        \* outcome of the last call of alert / disable_old_alerts
    reader,     \* the rows csv.DictReader has still to yield
    table,      \* the colour table that was opened (rows, in file order)
    css_rules,  \* the list css_rules
    luma,       \* the module-level variable luma (scaled, see Luma)
    rt          \* outcome of the last direct call of repeat_template

vars == <<pc, GLOBALS, numid, strid, banners, ret, reader, table, css_rules, luma, rt>>

----------------------------------------------------------------------------
(* Bounds of the model *)

MaxAlerts == 2
MaxRows == 2
MaxTemplateLen == 4
MaxKeys == 2

----------------------------------------------------------------------------
(* Text helpers: Python's str operations on sequences of symbols *)

None == <<>>
Some(x) == <<x>>

RECURSIVE Flatten(_)
Flatten(ss) == IF ss = <<>> THEN <<>> ELSE Head(ss) \o Flatten(Tail(ss))

\* sep.join(parts)
RECURSIVE Join(_, _)
Join(sep, parts) ==
    IF parts = <<>> THEN <<>>
    ELSE IF Len(parts) = 1 THEN parts[1]
    ELSE parts[1] \o sep \o Join(sep, Tail(parts))

\* the first index from which key occurs in s, 0 if there is none
Find(s, key) ==
    LET at == {j \in 1..(Len(s) - Len(key) + 1) : SubSeq(s, j, j + Len(key) - 1) = key}
    IN IF at = {} THEN 0 ELSE CHOOSE j \in at : \A k \in at : j <= k

\* s.replace(key, val): left to right, non-overlapping (key is not empty)
RECURSIVE Replace(_, _, _)
Replace(s, key, val) ==
    LET j == Find(s, key)
    IN IF j = 0 THEN s
       ELSE SubSeq(s, 1, j - 1) \o val \o Replace(SubSeq(s, j + Len(key), Len(s)), key, val)

Digits == <<"0", "1", "2", "3", "4", "5", "6", "7", "8", "9">>

\* str(n) of a natural number
RECURSIVE DecStr(_)
DecStr(n) == IF n < 10 THEN <<Digits[n + 1]>> ELSE DecStr(n \div 10) \o <<Digits[(n % 10) + 1]>>

\* list(range(n)) rendered with str
RangeStr(n) == [i \in 1..n |-> DecStr(i - 1)]

----------------------------------------------------------------------------
(* alert, lines 42-84 *)

Levels == {"info", "warning", "error"}
Titles == {<<"T">>}
Texts == {<<"x", "\n", "y">>}
\* ID=None, or a value whose str() is the text given
IDs == {None, Some(<<"a">>), Some(<<"0">>)}

NoRet == [fn |-> "none", level |-> "", raised |-> "", arg |-> <<>>, value |-> <<>>]

\* variant of level_ok: one more level is let through
level_ok_loose(level) == level \in {"info", "warning", "error"}

\* line 55
level_ok(level) == level \in {"info", "warning"}

\* level.title() for the levels of Levels
LevelTitle(level) ==
    CASE level = "info" -> "Info"
      [] level = "warning" -> "Warning"
      [] OTHER -> level

\* the text of the banner, lines 64-78, after textwrap.dedent
alert_html(title, text, level, alert_id) ==
    <<"<input type=\"hidden\" class=\"alert-hidder\" name=\"attr_alert-">> \o alert_id
    \o <<"\" value=\"0\"/>", "\n", "<div class=\"alert alert-", level, "\">", "\n",
         "    <div>", "\n", "        <h3> ", LevelTitle(level), " - ">> \o title
    \o <<"</h3>", "\n", "        ">>
    \o Replace(text, <<"\n">>, <<"\n", "        ">>)
    \o <<"\n", "    </div>", "\n", "    <label class=\"fakebutton\">", "\n",
         "        <input type=\"checkbox\" name=\"attr_alert-">> \o alert_id
    \o <<"\" value=\"1\" /> ×", "\n", "    </label>", "\n", "</div>">>

\* lines 57-59: the id of a banner without ID
numeric_alert_id == DecStr(numid)

\* variant of next_numid: the counter skips a value
next_numid_skip == numid + 2

\* line 59: alert.numid += 1
next_numid == numid + 1

\* lines 60-61: str(ID)
string_alert_id(ID) == ID[1]

\* A call made by the HTML template, which is rendered once the module is
\* imported.  A call that raised leaves the function usable.
alert(title, text, level, ID) ==
    /\ pc = "done"
    /\ IF ~level_ok(level)
       THEN /\ ret' = [fn |-> "alert", level |-> level, raised |-> "ValueError", arg |-> ID, value |-> <<>>]
            /\ UNCHANGED <<numid, strid, banners>>
       ELSE /\ numid + Len(strid) < MaxAlerts
            /\ IF ID = None
               THEN /\ numid' = next_numid
                    /\ strid' = strid
                    /\ banners' = Append(banners, [num |-> TRUE, id |-> numeric_alert_id])
                    /\ ret' = [fn |-> "alert", level |-> level, raised |-> "", arg |-> ID,
                               value |-> alert_html(title, text, level, numeric_alert_id)]
               ELSE /\ numid' = numid
                    /\ strid' = Append(strid, string_alert_id(ID))
                    /\ banners' = Append(banners, [num |-> FALSE, id |-> string_alert_id(ID)])
                    /\ ret' = [fn |-> "alert", level |-> level, raised |-> "", arg |-> ID,
                               value |-> alert_html(title, text, level, string_alert_id(ID))]
    /\ UNCHANGED <<pc, GLOBALS, reader, table, css_rules, luma, rt>>

----------------------------------------------------------------------------
(* disable_old_alerts, lines 87-98 *)

Markers == {<<"m">>}

\* variant of old_alert_ids: the string ids come first
old_alert_ids_swapped == strid \o RangeStr(numid)

\* line 90: list(range(alert.numid)) + alert.strid
old_alert_ids == RangeStr(numid) \o strid

\* lines 89-98, after textwrap.dedent (which empties a line of blanks only)
set_attrs(marker, ids) ==
    <<"setAttrs({", "\n", "    \"">> \o marker \o <<"\": 1,", "\n">>
    \o (IF ids = <<>> THEN <<>> ELSE <<"    ">>)
    \o Join(<<",", "\n", "    ">>, [i \in 1..Len(ids) |-> <<"\"alert-">> \o ids[i] \o <<"\": 1">>])
    \o <<"\n", "}); ">>

disable_old_alerts(marker) ==
    /\ pc = "done"
    /\ ret' = [fn |-> "disable_old_alerts", level |-> "", raised |-> "", arg |-> marker,
               value |-> set_attrs(marker, old_alert_ids)]
    /\ UNCHANGED <<pc, GLOBALS, numid, strid, banners, reader, table, css_rules, luma, rt>>

----------------------------------------------------------------------------
(* The template repeater and the roll builders of .helpers (lines 9-17) *)

\* variant of repeat_template: no keys give the template back unchanged
RECURSIVE repeat_template_keep(_, _, _)
repeat_template_keep(template, keys, rep_key) ==
    IF keys = <<>> THEN template
    ELSE IF Len(keys) = 1 THEN Replace(template, rep_key, Head(keys))
    ELSE Replace(template, rep_key, Head(keys)) \o repeat_template_keep(template, Tail(keys), rep_key)

\* repeat_template(template, keys, rep_key=...): the template once per key,
\* every occurrence of rep_key replaced by the key, concatenated
RECURSIVE repeat_template(_, _, _)
repeat_template(template, keys, rep_key) ==
    IF keys = <<>> THEN <<>>
    ELSE Replace(template, rep_key, Head(keys)) \o repeat_template(template, Tail(keys), rep_key)

\* roll(*parts): the sub-expressions joined by the separator
roll(parts) == Join(<<" + ">>, parts)

\* rolltemplate(name, **fields) with %(die)s filled in for one kind of die
rolltemplate(name, fields, die) ==
    <<"&{template:", name, "}">>
    \o Flatten([i \in 1..Len(fields) |->
                   <<" {{", fields[i][1], "=">> \o Replace(fields[i][2], <<"%(die)s">>, <<die>>) \o <<"}}">>])

----------------------------------------------------------------------------
(* Personality traits and reputations, lines 119-174 *)

rep_key == <<"$", "$">>

\* variant of personality_keys: range(1, 8)
personality_keys_seven == [i \in 1..7 |-> DecStr(i)]

\* range(1, 7) rendered with str
personality_keys == [i \in 1..6 |-> DecStr(i)]
reputation_keys == [i \in 1..6 |-> DecStr(i)]

personnality_roll ==
    roll(<< <<"[[@{Personality_Trait", "$", "$", "_Score}]] [@{Personality_Trait", "$", "$", "}]">>,
            <<"(?{@{circumstantial_i18n}|0}) [@{circumstances_i18n}]">> >>)

personnality_template(die) ==
    rolltemplate("generic",
        << <<"Banner", <<"^{personality} ^{roll}">> >>,
           <<"Label", <<"@{Personality_Trait", "$", "$", "}">> >>,
           <<"Result", <<"[[ ", "%(die)s", " + ">> \o personnality_roll \o <<" ]]">> >> >>, die)

personality_template_text ==
    <<"<tr>", "\n",
      "    <td><input type=\"text\" class=\"heading_2\" style=\"width:245px\" name=\"attr_Personality_Trait",
      "$", "$", "\"/></td>", "\n",
      "    <td><input type=\"text\" class=\"number_1\" style=\"width:70px;\" name=\"attr_Personality_Trait",
      "$", "$", "_score\"/></td>", "\n",
      "    <td><div class=\"flex-container\">", "\n",
      "        <button type=\"roll\" class=\"button simple-roll\" name=\"roll_personality",
      "$", "$", "_simple\" value=\"">> \o personnality_template("simple") \o
    <<"\"></button>", "\n",
      "        <button type=\"roll\" class=\"button stress-roll\" name=\"roll_personality",
      "$", "$", "_stress\" value=\"">> \o personnality_template("stress") \o
    <<"\"></button>", "\n", "    </div></td>", "\n", "</tr>">>

reputation_roll ==
    roll(<< <<"[[@{Reputations", "$", "$", "_Score}]] [@{Reputations", "$", "$", "}]">>,
            <<"(?{@{circumstantial_i18n}|0}) [@{circumstances_i18n}]">> >>)

reputation_template(die) ==
    rolltemplate("generic",
        << <<"Banner", <<"^{reputation} ^{roll}">> >>,
           <<"Label", <<"@{Reputations", "$", "$", "}">> >>,
           <<"Result", <<"[[ ", "%(die)s", " + ">> \o reputation_roll \o <<" ]]">> >> >>, die)

reputation_template_text ==
    <<"<tr>", "\n",
      "    <td><input type=\"text\" class=\"heading_2\" name=\"attr_Reputations",
      "$", "$", "\"/></td>", "\n",
      "    <td><input type=\"text\" class=\"heading_2a\" name=\"attr_Reputations",
      "$", "$", "_type\"/></td>", "\n",
      "    <td><input type=\"text\" class=\"number_1\" style=\"width:50px;\" name=\"attr_Reputations",
      "$", "$", "_score\"/></td>", "\n",
      "    <td><div class=\"flex-container\">", "\n",
      "        <button type=\"roll\" class=\"button simple-roll\" name=\"roll_reputation",
      "$", "$", "_simple\" value=\"">> \o reputation_template("simple") \o
    <<"\"></button>", "\n",
      "        <button type=\"roll\" class=\"button stress-roll\" name=\"roll_reputation",
      "$", "$", "_stress\" value=\"">> \o reputation_template("stress") \o
    <<"\"></button>", "\n", "    </div></td>", "\n", "</tr>">>

\* GLOBALS[slot] = value
SetSlot(slot, value) == [k \in (DOMAIN GLOBALS) \cup {slot} |-> IF k = slot THEN value ELSE GLOBALS[k]]

UnchangedAlerts == UNCHANGED <<numid, strid, banners, ret>>

\* lines 131-145
personality_trait_rows ==
    /\ pc = "personality"
    /\ GLOBALS' = SetSlot("personality_trait_rows",
                          repeat_template(personality_template_text, personality_keys, rep_key))
    /\ pc' = "reputation"
    /\ UnchangedAlerts
    /\ UNCHANGED <<reader, table, css_rules, luma, rt>>

\* lines 159-174
reputation_rows ==
    /\ pc = "reputation"
    /\ GLOBALS' = SetSlot("reputation_rows",
                          repeat_template(reputation_template_text, reputation_keys, rep_key))
    /\ pc' = "documentation"
    /\ UnchangedAlerts
    /\ UNCHANGED <<reader, table, css_rules, luma, rt>>

----------------------------------------------------------------------------
(* Documentation, lines 568-575 *)

\* the file documentation.md: absent, or its lines [level, text]
\* (level 0: a paragraph, level k: a heading of k # signs)
MissingFile == [exists |-> FALSE]
Documents == {MissingFile,
              [exists |-> TRUE, lines |-> << [level |-> 1, text |-> "Heading"],
                                             [level |-> 0, text |-> "text"] >>]}

\* markdown.markdown, the class added to h1..h9 (lines 572-574), prettify()
documentation_html(lines) ==
    Flatten([i \in 1..Len(lines) |->
        IF lines[i].level = 0
        THEN <<"<p>", "\n", " ", lines[i].text, "\n", "</p>", "\n">>
        ELSE <<"<h", Digits[lines[i].level + 1], " class=\" heading_label\">", "\n", " ",
               lines[i].text, "\n", "</h", Digits[lines[i].level + 1], ">", "\n">>])

documentation(doc) ==
    /\ pc = "documentation"
    /\ IF doc.exists
       THEN /\ GLOBALS' = SetSlot("documentation", documentation_html(doc.lines))
            /\ pc' = "colors"
       ELSE /\ pc' = "failed"
            /\ UNCHANGED GLOBALS
    /\ UnchangedAlerts
    /\ UNCHANGED <<reader, table, css_rules, luma, rt>>

----------------------------------------------------------------------------
(* Colours of the custom rolltemplate, lines 578-616 *)

HexUpper == <<"0", "1", "2", "3", "4", "5", "6", "7", "8", "9", "A", "B", "C", "D", "E", "F">>
HexLower == <<"0", "1", "2", "3", "4", "5", "6", "7", "8", "9", "a", "b", "c", "d", "e", "f">>
IsHexDigit(c) == \E i \in 1..16 : c = HexUpper[i] \/ c = HexLower[i]
HexVal(c) == (CHOOSE i \in 1..16 : c = HexUpper[i] \/ c = HexLower[i]) - 1

\* s.lstrip("#")
RECURSIVE LStrip(_, _)
LStrip(s, c) == IF s # <<>> /\ Head(s) = c THEN LStrip(Tail(s), c) ELSE s

RECURSIVE RStrip(_, _)
RStrip(s, c) == IF s # <<>> /\ s[Len(s)] = c THEN RStrip(SubSeq(s, 1, Len(s) - 1), c) ELSE s

\* s[a:b] for 0 <= a <= b
Slice(s, a, b) == SubSeq(s, a + 1, IF b < Len(s) THEN b ELSE Len(s))

\* int(s, 16) for a text of at most two symbols: None where Python raises
\* ValueError; blanks around the number and one sign are accepted
Int16(s) ==
    LET t == RStrip(LStrip(s, " "), " ")
        signed == t # <<>> /\ Head(t) \in {"+", "-"}
        u == IF signed THEN Tail(t) ELSE t
        v == IF Len(u) = 1 THEN HexVal(u[1]) ELSE 16 * HexVal(u[1]) + HexVal(u[2])
    IN IF u = <<>> \/ \E i \in 1..Len(u) : ~IsHexDigit(u[i]) THEN None
       ELSE Some(IF signed /\ Head(t) = "-" THEN 0 - v ELSE v)

\* line 600: the three channels, as numbers of 255ths; None where int() raises
Channels(hex) ==
    LET c == [i \in 1..3 |-> Int16(Slice(hex, 2 * (i - 1), 2 * (i - 1) + 2))]
    IN IF \E i \in 1..3 : c[i] = None THEN None ELSE Some(<<c[1][1], c[2][1], c[3][1]>>)

\* luma is kept in units of 1/2550000: 0.5 is Half
Half == 1275000

\* The channel triples of exact luma 0.5 (2126 R + 7152 G + 722 B = Half) for which
\* the double-precision evaluation of lines 600-603 yields a value below 0.5.
\* On every other triple of channels -15..255 the double compares with 0.5 as
\* the exact value does.
RoundedBelowHalf ==
    {<<13, 163, 113>>, <<30, 153, 162>>, <<78, 146, 90>>, <<126, 139, 18>>,
     <<143, 129, 67>>, <<208, 112, 44>>, <<225, 102, 93>>}

\* line 603
Luma(rgb) ==
    IF rgb \in RoundedBelowHalf THEN Half - 1
    ELSE 2126 * rgb[1] + 7152 * rgb[2] + 722 * rgb[3]

\* variant of black_text: the comparison is turned round
black_text_inverted(l) == l < Half

\* lines 604-607
black_text(l) == l > Half
\* lines 608-609
white_text(l) == l < Half

\* lines 585-588 and 606
lines_header(color, hex, l) ==
    << <<".sheet-rolltemplate-custom .sheet-crt-container.sheet-crt-color-">> \o color \o <<" {">>,
       <<"    --header-bg-color: ">> \o hex \o <<";">> >>
    \o (IF black_text(l) THEN << <<"    --header-text-color: #000;">> >> ELSE <<>>)

\* lines 589-592 and 609
lines_rolls(color, hex, l) ==
    << <<".sheet-rolltemplate-custom .sheet-crt-container.sheet-crt-rlcolor-">> \o color
           \o <<" .inlinerollresult {">>,
       <<"    --roll-bg-color: ">> \o hex \o <<";">> >>
    \o (IF white_text(l) THEN << <<"    --roll-text-color: #FFF;">> >> ELSE <<>>)

\* lines 593-596 and 607
lines_buttons(color, hex, l) ==
    << <<".sheet-rolltemplate-custom .sheet-crt-container.sheet-crt-btcolor-">> \o color \o <<" a {">>,
       <<"    --button-bg-color: ">> \o hex \o <<";">> >>
    \o (IF black_text(l) THEN << <<"    --button-text-color: #000;">> >> ELSE <<>>)

\* variant of close_block: the closing brace is left out
close_block_open(lines) == Join(<<"\n">>, lines)

\* lines 613-614: the block is closed and its lines joined
close_block(lines) == Join(<<"\n">>, Append(lines, <<"}">>))

\* lines 612-614: the three rule blocks of one colour, in the order appended
rule_blocks(color, hex, l) ==
    << close_block(lines_header(color, hex, l)),
       close_block(lines_rolls(color, hex, l)),
       close_block(lines_buttons(color, hex, l)) >>

\* variant of css_text: a newline ends the text
css_text_newline(rules) == Join(<<"\n">>, rules) \o <<"\n">>

\* line 616: the text of the slot
css_text(rules) == Join(<<"\n">>, rules)

\* variant of row_luma: the text colours follow the luma left by the row before
row_luma_stale(hex) == luma

\* lines 603-609: the luma the text colours of a row are chosen by, the one
\* just computed from the row
row_luma(hex) == Luma(Channels(LStrip(hex, "#"))[1])

\* The hex values of the colour tables: text, or None for a row cut short
HexValues ==
    {Some(<<"#", "F", "F", "F", "F", "F", "F">>),
     Some(<<"#", "0", "0", "0", "0", "0", "0">>),
     Some(<<"#", "2", "F", "8", "F", "D", "3">>),
     Some(<<"#", "0", "D", "A", "3", "7", "1">>),
     Some(<<"#", "a", "1", "8", "1", "0", "e">>),
     Some(<<"#", "8", "E", "7", "7", "A", "9">>),
     Some(<<"#", "F", "F", "F", "F", "F">>),
     Some(<<"#", "F", "F", "F">>),
     None}
ColorNames == {<<"c">>}
FullRows == {[color |-> c, hex |-> h] : c \in ColorNames, h \in HexValues}
ShortRows == {[color |-> c] : c \in ColorNames}

RECURSIVE SeqsUpTo(_, _)
SeqsUpTo(S, n) ==
    IF n = 0 THEN {<<>>}
    ELSE LET shorter == SeqsUpTo(S, n - 1)
         IN shorter \cup {Append(s, x) : s \in {t \in shorter : Len(t) = n - 1}, x \in S}

\* the file css_colors.csv: absent, or the rows DictReader yields (dicts
\* keyed by the header's field names)
ColorTables ==
    {MissingFile}
    \cup {[exists |-> TRUE, rows |-> rs] : rs \in SeqsUpTo(FullRows, MaxRows)}
    \cup {[exists |-> TRUE, rows |-> rs] : rs \in SeqsUpTo(ShortRows, 1)}

\* lines 580-582
open_colors(csv) ==
    /\ pc = "colors"
    /\ IF csv.exists
       THEN /\ reader' = csv.rows
            /\ table' = csv.rows
            /\ css_rules' = <<>>
            /\ pc' = "color_loop"
       ELSE /\ pc' = "failed"
            /\ UNCHANGED <<reader, table, css_rules>>
    /\ UnchangedAlerts
    /\ UNCHANGED <<GLOBALS, luma, rt>>

\* the exception one pass of the loop body raises on this row, "" if none
row_error(color_def) ==
    IF "color" \notin DOMAIN color_def \/ "hex" \notin DOMAIN color_def THEN "KeyError"
    ELSE IF color_def["hex"] = None THEN "AttributeError"
    ELSE IF Channels(LStrip(color_def["hex"][1], "#")) = None THEN "ValueError"
    ELSE ""

\* lines 583-614: one pass of the loop
color_def_step ==
    /\ pc = "color_loop"
    /\ reader # <<>>
    /\ LET color_def == Head(reader)
       IN IF row_error(color_def) # ""
          THEN /\ pc' = "failed"
               /\ UNCHANGED <<reader, css_rules, luma>>
          ELSE /\ luma' = Luma(Channels(LStrip(color_def["hex"][1], "#"))[1])
               /\ css_rules' = css_rules \o rule_blocks(color_def["color"], color_def["hex"][1],
                                                        row_luma(color_def["hex"][1]))
               /\ reader' = Tail(reader)
               /\ pc' = pc
    /\ UnchangedAlerts
    /\ UNCHANGED <<GLOBALS, table, rt>>

\* line 616
custom_rt_color_css ==
    /\ pc = "color_loop"
    /\ reader = <<>>
    /\ GLOBALS' = SetSlot("custom_rt_color_css", css_text(css_rules))
    /\ pc' = "done"
    /\ UnchangedAlerts
    /\ UNCHANGED <<reader, table, css_rules, luma, rt>>

----------------------------------------------------------------------------
(* Direct calls of repeat_template, on templates and keys of bounded length *)

TemplateSymbols == {"a", "b", "$"}
KeySymbols == {"a", "b"}
Templates == SeqsUpTo(TemplateSymbols, MaxTemplateLen)
KeyLists == SeqsUpTo(SeqsUpTo(KeySymbols, 1), MaxKeys)

NoCall == [called |-> FALSE, template |-> <<>>, keys |-> <<>>, out |-> <<>>]

\* one call, with any template and any keys of the bounded sets
call_repeat_template ==
    /\ ~rt.called
    /\ \E template \in Templates, keys \in KeyLists :
          rt' = [called |-> TRUE, template |-> template, keys |-> keys,
                 out |-> repeat_template(template, keys, rep_key)]
    /\ UnchangedAlerts
    /\ UNCHANGED <<pc, GLOBALS, reader, table, css_rules, luma>>

----------------------------------------------------------------------------

\* lines 104-116: the text slots GLOBALS starts with
InitialSlots ==
    [k \in {"html_header", "css_header"} |->
        IF k = "html_header"
        THEN <<"<!-- DO NOT MODIFY !", "\n",
               "This file is automatically generated from a template. Any change will be overwritten",
               "\n", "-->">>
        ELSE <<"/* DO NOT MODIFY !", "\n",
               "This file is automatically generated from a tempalte. Any change will be overwritten",
               "\n", "*/">>]

Init ==
    /\ pc = "personality"
    /\ GLOBALS = InitialSlots
    /\ numid = 0
    /\ strid = <<>>
    /\ banners = <<>>
    /\ ret = NoRet
    /\ reader = <<>>
    /\ table = <<>>
    /\ css_rules = <<>>
    /\ luma = 0
    /\ rt = NoCall

NextRepeat ==
    \/ personality_trait_rows
    \/ reputation_rows
    \/ call_repeat_template

SpecRepeat == Init /\ [][NextRepeat]_vars

----------------------------------------------------------------------------

Next ==
    \/ personality_trait_rows
    \/ reputation_rows
    \/ \E doc \in Documents : documentation(doc)
    \/ \E csv \in ColorTables : open_colors(csv)
    \/ color_def_step
    \/ custom_rt_color_css
    \/ \E title \in Titles, text \in Texts, level \in Levels, ID \in IDs :
          alert(title, text, level, ID)
    \/ \E marker \in Markers : disable_old_alerts(marker)

Spec == Init /\ [][Next]_vars

----------------------------------------------------------------------------
(* Properties *)

\* s.count(key): left to right, non-overlapping (key is not empty)
RECURSIVE Count(_, _)
Count(s, key) ==
    LET j == Find(s, key)
    IN IF j = 0 THEN 0 ELSE 1 + Count(SubSeq(s, j + Len(key), Len(s)), key)

\* the colour rows the loop has passed so far
Processed == Len(css_rules) \div 3

\* "#" and six hex digits
WellFormedHex(h) == Len(h) = 7 /\ h[1] = "#" /\ \A i \in 2..7 : IsHexDigit(h[i])

\* 0.2126 R + 0.7152 G + 0.0722 B of a well-formed hex value, in units of 1/2550000
ExactLuma(h) ==
    2126 * (16 * HexVal(h[2]) + HexVal(h[3]))
    + 7152 * (16 * HexVal(h[4]) + HexVal(h[5]))
    + 722 * (16 * HexVal(h[6]) + HexVal(h[7]))

StartsWith(s, prefix) == Len(prefix) <= Len(s) /\ SubSeq(s, 1, Len(prefix)) = prefix
Has(block, line) == Find(block, <<line>>) # 0
BlackDeclared(i) ==
    /\ Has(css_rules[3 * i - 2], "    --header-text-color: #000;")
    /\ Has(css_rules[3 * i], "    --button-text-color: #000;")
WhiteDeclared(i) == Has(css_rules[3 * i - 1], "    --roll-text-color: #FFF;")
AnyBlack(i) == \E k \in (3 * i - 2)..(3 * i) :
    Has(css_rules[k], "    --header-text-color: #000;") \/ Has(css_rules[k], "    --button-text-color: #000;")
AnyWhite(i) == \E k \in (3 * i - 2)..(3 * i) : Has(css_rules[k], "    --roll-text-color: #FFF;")

White6 == <<"#", "F", "F", "F", "F", "F", "F">>
Black6 == <<"#", "0", "0", "0", "0", "0", "0">>

\* C1: a call of alert with a level other than "info" and "warning" raises
\* ValueError, returns no HTML, with or without an ID, and leaves alert.numid,
\* alert.strid and the banners produced so far as they were.
C1_RejectedLevel ==
    [][(ret'.fn = "alert" /\ ret'.level \notin {"info", "warning"})
        => /\ ret'.raised = "ValueError"
           /\ ret'.value = <<>>
           /\ numid' = numid
           /\ strid' = strid
           /\ banners' = banners]_vars

C1_Witness ==
    /\ ret.fn = "alert"
    /\ ret.level = "error"
    /\ ret.raised = "ValueError"
    /\ ret.arg # None
    /\ numid = 1
    /\ Len(strid) = 1

\* C2: every row whose six-digit hex value has luma above 0.5 gets the black
\* text declarations (header and button) and no white one, every row with luma
\* below 0.5 gets the white text declaration (roll) and no black one; #FFFFFF
\* gets black text and #000000 white text.
C2_TextColourByLuma ==
    \A i \in 1..Processed :
        LET h == table[i].hex[1]
        IN /\ WellFormedHex(h) =>
                /\ ExactLuma(h) > Half => (BlackDeclared(i) /\ ~AnyWhite(i))
                /\ ExactLuma(h) < Half => (WhiteDeclared(i) /\ ~AnyBlack(i))
           /\ h = White6 => BlackDeclared(i)
           /\ h = Black6 => WhiteDeclared(i)

C2_Witness ==
    /\ pc = "done"
    /\ Len(table) = 2
    /\ table[1].hex = Some(<<"#", "a", "1", "8", "1", "0", "e">>)
    /\ table[2].hex = Some(<<"#", "8", "E", "7", "7", "A", "9">>)

\* C3, as claimed: the ids of the banners produced so far are pairwise distinct.
C3_UniqueBannerIds ==
    \A i, j \in 1..Len(banners) : i # j => banners[i].id # banners[j].id

\* C4: a run that ends normally on a table of N rows has emitted exactly 3 N
\* rule blocks: per colour, in table order, the header, the roll and the button
\* block, each closed by "}" and each holding the colour's hex value as its
\* custom property; the slot holds them joined and so has 3 N closing braces.
C4_ThreeBlocksPerColour ==
    pc = "done" =>
        /\ Len(css_rules) = 3 * Len(table)
        /\ Count(GLOBALS["custom_rt_color_css"], <<"}">>) = 3 * Len(table)
        /\ \A i \in 1..Len(table) :
              LET c == table[i].color
                  h == table[i].hex[1]
                  hd == css_rules[3 * i - 2]
                  rl == css_rules[3 * i - 1]
                  bt == css_rules[3 * i]
              IN /\ StartsWith(hd, <<".sheet-rolltemplate-custom .sheet-crt-container.sheet-crt-color-">> \o c)
                 /\ StartsWith(rl, <<".sheet-rolltemplate-custom .sheet-crt-container.sheet-crt-rlcolor-">> \o c)
                 /\ StartsWith(bt, <<".sheet-rolltemplate-custom .sheet-crt-container.sheet-crt-btcolor-">> \o c)
                 /\ Find(hd, <<"    --header-bg-color: ">> \o h \o <<";">>) # 0
                 /\ Find(rl, <<"    --roll-bg-color: ">> \o h \o <<";">>) # 0
                 /\ Find(bt, <<"    --button-bg-color: ">> \o h \o <<";">>) # 0
                 /\ \A b \in {hd, rl, bt} : b[Len(b)] = "}" /\ Count(b, <<"}">>) = 1

C4_Witness ==
    /\ pc = "done"
    /\ Len(table) = 2
    /\ table[1].hex = Some(White6)
    /\ table[2].hex = Some(Black6)

\* C5, as claimed: a run ends normally only if every colour row holds a valid
\* six-digit hex colour, so that no malformed colour rule is emitted.
C5_MalformedInputFails ==
    pc = "done" =>
        \A i \in 1..Len(table) :
            /\ "hex" \in DOMAIN table[i]
            /\ table[i].hex # None
            /\ WellFormedHex(table[i].hex[1])

\* C7: a colour table with no rows leaves the slot custom_rt_color_css empty.
C7_NoRowsNoCss ==
    (pc = "done" /\ table = <<>>) => GLOBALS["custom_rt_color_css"] = <<>>

C7_Witness ==
    /\ pc = "done"
    /\ table = <<>>
    /\ "custom_rt_color_css" \in DOMAIN GLOBALS

PartBefore(template) == SubSeq(template, 1, Find(template, rep_key) - 1)
PartAfter(template) == SubSeq(template, Find(template, rep_key) + Len(rep_key), Len(template))
StaticParts(template) == {PartBefore(template), PartAfter(template)} \ {<<>>}
Symbols(s) == {s[i] : i \in 1..Len(s)}
KeySymbolsOf(keys) == UNION {Symbols(keys[i]) : i \in 1..Len(keys)}
OnePlaceholder == rt.called /\ Count(rt.template, rep_key) = 1

C9_NoKeysNoText ==
    (rt.called /\ rt.keys = <<>>) => rt.out = <<>>

C9_Witness ==
    /\ rt.called
    /\ rt.keys = <<>>
    /\ rt.template = <<"a", "$", "$">>

NumericIds == [i \in 1..Len(SelectSeq(banners, LAMBDA b : b.num)) |->
                  SelectSeq(banners, LAMBDA b : b.num)[i].id]
StringIds == [i \in 1..Len(SelectSeq(banners, LAMBDA b : ~b.num)) |->
                 SelectSeq(banners, LAMBDA b : ~b.num)[i].id]

\* C10: disable_old_alerts(marker) lists the banners produced before it and no
\* others: the numeric ids 0..alert.numid-1 in increasing order, then the
\* string ids in the order their banners were produced; the call changes
\* neither alert.numid nor alert.strid.
C10_ListsOldAlerts ==
    /\ [](ret.fn = "disable_old_alerts" =>
            /\ ret.value = set_attrs(ret.arg, NumericIds \o StringIds)
            /\ NumericIds = [i \in 1..numid |-> DecStr(i - 1)])
    /\ [][ret'.fn = "disable_old_alerts" => (numid' = numid /\ strid' = strid)]_vars

C10_Witness ==
    /\ ret.fn = "disable_old_alerts"
    /\ Len(banners) = 2
    /\ ~banners[1].num
    /\ banners[2].num

NumericBanners == SelectSeq(banners, LAMBDA b : b.num)
StringBanners == SelectSeq(banners, LAMBDA b : ~b.num)

\* C11: a successful call of alert without ID names its banner by the value
\* alert.numid had, adds exactly 1 to alert.numid and leaves alert.strid alone;
\* a successful call with an ID appends str(ID) to alert.strid and leaves
\* alert.numid alone.  So alert.numid is the number of successful calls without
\* ID and len(alert.strid) the number of successful calls with one.
C11_CounterAndListFollowCalls ==
    /\ [][(ret'.fn = "alert" /\ ret'.raised = "") =>
            IF ret'.arg = None
            THEN /\ numid' = numid + 1
                 /\ strid' = strid
                 /\ banners' = Append(banners, [num |-> TRUE, id |-> DecStr(numid)])
                 /\ StartsWith(ret'.value,
                               <<"<input type=\"hidden\" class=\"alert-hidder\" name=\"attr_alert-">>
                               \o DecStr(numid) \o <<"\" value=\"0\"/>">>)
            ELSE /\ numid' = numid
                 /\ strid' = Append(strid, ret'.arg[1])
                 /\ banners' = Append(banners, [num |-> FALSE, id |-> ret'.arg[1]])]_vars
    /\ [](numid = Len(NumericBanners) /\ Len(strid) = Len(StringBanners))

C11_Witness ==
    /\ ret.fn = "alert"
    /\ ret.raised = ""
    /\ ret.arg = None
    /\ Len(banners) = 2
    /\ ~banners[1].num
    /\ numid = 1
    /\ Len(strid) = 1

\* C12, as claimed: for every colour the black text declarations of the header
\* and the button block come together or not at all, never with the white text
\* declaration of the roll block, and a colour of luma exactly 0.5 gets no text
\* colour declaration in any of its three blocks.
C12_TextDeclarationsConsistent ==
    \A i \in 1..Processed :
        LET h == table[i].hex[1]
            headerBlack == Has(css_rules[3 * i - 2], "    --header-text-color: #000;")
            buttonBlack == Has(css_rules[3 * i], "    --button-text-color: #000;")
        IN /\ headerBlack <=> buttonBlack
           /\ ~(AnyBlack(i) /\ AnyWhite(i))
           /\ (WellFormedHex(h) /\ ExactLuma(h) = Half) => (~AnyBlack(i) /\ ~AnyWhite(i))

====
